---------------------------- MODULE Spec2Model ----------------------------
(***************************************************************************)
(* Model of src-tauri/src/lib.rs: the subprocess orchestration layer.      *)
(*                                                                         *)
(*   SpecService  start_service / its watcher task / stop_service /        *)
(*                get_running_services over RUNNING_SERVICES               *)
(*   SpecShell    run_shell_command / kill_shell_process over              *)
(*                RUNNING_PROCESSES and KILL_SIGNALS                       *)
(*   SpecClaude   one send_to_claude turn                                  *)
(*                                                                         *)
(* Tokio tasks run in parallel; the atomic steps are the sections between  *)
(* two suspension points (.await).  A tokio Mutex guard that is held       *)
(* across an .await is modelled by a lock variable naming its holder.      *)
(***************************************************************************)
EXTENDS Integers, Sequences, FiniteSets, TLC

VARIABLES
    \* ---- RUNNING_SERVICES and the service tasks
    services,    \* RUNNING_SERVICES: service id -> child (index into children)
    svcLock,     \* holder of the RUNNING_SERVICES mutex across an await, 0 = free
    children,    \* every service child spawned so far: [sid, st, code, end];
                 \* end records how its handle left the map ("" while it has not)
    pc,          \* per call: position in its command
    op,          \* per call: the command it runs
    arg,         \* per call: its service_id argument
    own,         \* per call: the child it spawned / took out of the map, 0 = none
    ret,         \* per call: the value it returned
    wpc,         \* per start_service call: position of its exit-watcher task
    svcEvents,   \* terminal ServiceOutput events emitted, in order
    \* ---- RUNNING_PROCESSES, KILL_SIGNALS and the shell tasks
    processes,   \* RUNNING_PROCESSES: process id -> child (index into jobs)
    signals,     \* KILL_SIGNALS: the process ids marked for killing
    procLock,    \* holder of the RUNNING_PROCESSES mutex across an await, 0 = free
    killLock,    \* holder of the KILL_SIGNALS mutex across an await, 0 = free
    jobs,        \* every shell child spawned so far: [pid, st, code]
    jpc,         \* per call: position in its command
    jop,         \* per call: the command it runs
    jarg,        \* per call: its process_id argument
    jown,        \* per call: the child it spawned (child_pid), 0 = none
    jtaken,      \* per call: the handle it removed from the map, 0 = none
    jret,        \* per call: the value it returned
    stale,       \* history: ids whose pending kill request was recorded
                 \* while no job was registered or running under the id
    late,        \* history: ids whose pending kill request was recorded
                 \* after every job under the id had taken its final poll tick
    \* ---- one send_to_claude turn
    cpc,               \* position in send_to_claude
    integrations,      \* the integrations argument
    mcpFile,           \* Option: the MCP config document in the temp file
    mcpFlag,           \* whether --mcp-config was passed to the child
    childEnv,          \* environment variables set for the child (cmd.env)
    temp_mcp_config_path, \* whether the call remembers a temp file to delete
    lines,             \* the stdout lines read so far, as parsed frames
    full_response,     \* the aggregated response text
    total_tokens,
    result_session_id,
    error_message,     \* Option: the pending error
    clEvents,          \* claude-response events emitted, in order
    status,            \* Option: the exit status child.wait() returned
    stderr_output,     \* what the stderr reader task handed over at the join
    cret               \* the value send_to_claude returned

svcVars == <<services, svcLock, children, pc, op, arg, own, ret, wpc, svcEvents>>

shVars == <<processes, signals, procLock, killLock, jobs,
            jpc, jop, jarg, jown, jtaken, jret, stale, late>>

clVars == <<cpc, integrations, mcpFile, mcpFlag, childEnv, temp_mcp_config_path,
            lines, full_response, total_tokens, result_session_id,
            error_message, clEvents, status, stderr_output, cret>>

-----------------------------------------------------------------------------
(* Bounds *)

\* number of stdout lines the child writes in one turn
MaxLines == 3

\* number of commands (run_shell_command / kill_shell_process) issued
MaxShellCalls == 3

\* number of commands (start_service / stop_service / get_running_services) issued
MaxCalls == 3

ServiceIds == {"s1", "s2"}
ExitCodes == {0}
ProcessIds == {"p1", "p2"}
ShellCalls == 1..MaxShellCalls
Calls == 1..MaxCalls

-----------------------------------------------------------------------------
(* Values *)

NoRet == [kind |-> "none", msg |-> "", flag |-> FALSE, list |-> <<>>]
OkUnit == [kind |-> "Ok", msg |-> "", flag |-> FALSE, list |-> <<>>]
\* a result that reports an entry whether one was found or not
OkBoolTrue(b) == [kind |-> "Ok", msg |-> "", flag |-> TRUE, list |-> <<>>]
OkBool(b) == [kind |-> "Ok", msg |-> "", flag |-> b, list |-> <<>>]
OkList(l) == [kind |-> "Ok", msg |-> "", flag |-> FALSE, list |-> l]
ErrMsg(m) == [kind |-> "Err", msg |-> m, flag |-> FALSE, list |-> <<>>]

\* Option<T> as a sequence of length at most one
None == <<>>
Some(x) == <<x>>

\* calls are numbered in the order in which they are issued
NextCall(c) == pc[c] = "idle" /\ (IF c = 1 THEN TRUE ELSE pc[c - 1] # "idle")

\* HashMap::remove
MapRemove(m, k) == [x \in (DOMAIN m) \ {k} |-> m[x]]
\* HashMap::insert (an existing entry under k is replaced and its value dropped)
MapInsert(m, k, v) == [x \in (DOMAIN m) \cup {k} |-> IF x = k THEN v ELSE m[x]]

\* the orders in which iterating a HashMap's keys can yield them
KeyOrders(m) ==
    {s \in [1..Cardinality(DOMAIN m) -> DOMAIN m] :
        \A i, j \in 1..Cardinality(DOMAIN m) : i # j => s[i] # s[j]}

\* ExitStatus::code(): the exit code, absent when the child died by a signal
StatusCode(child) == IF child.st = "exited" THEN Some(child.code) ELSE None

\* the terminal ServiceOutput event (output "", is_stderr false)
TerminalEvent(sid, code, k) ==
    [service_id |-> sid, is_complete |-> TRUE, exit_code |-> code, child |-> k]

\* a freshly spawned child process
NewChild(sid) == [sid |-> sid, st |-> "running", code |-> 0, end |-> ""]

\* the handles in `gone` have left the map by way of `how`
Ended(gone, how) ==
    [k \in DOMAIN children |->
        IF k \in gone THEN [children[k] EXCEPT !.end = how] ELSE children[k]]

\* the handle registered under sid, as a set (empty when there is none)
Registered(sid) == IF sid \in DOMAIN services THEN {services[sid]} ELSE {}

-----------------------------------------------------------------------------
(* start_service *)

\* a check that never finds the id registered
AlreadyRunningNever(sid) == FALSE

\* services.contains_key(&service_id)
AlreadyRunning(sid) == sid \in DOMAIN services

\* lines 549-566: the check under the lock (released at the block's end), then
\* cmd.spawn(), which is synchronous: nothing shared is touched and the task
\* is not suspended between the check and the spawn
StartCheck(c, sid) ==
    /\ NextCall(c)
    /\ svcLock = 0
    /\ op' = [op EXCEPT ![c] = "start_service"]
    /\ arg' = [arg EXCEPT ![c] = sid]
    /\ IF AlreadyRunning(sid)
       THEN /\ pc' = [pc EXCEPT ![c] = "done"]
            /\ ret' = [ret EXCEPT ![c] = ErrMsg("Service is already running")]
            /\ UNCHANGED <<children, own>>
       ELSE \/ \* spawn() = Ok(child)
               /\ children' = Append(children, NewChild(sid))
               /\ own' = [own EXCEPT ![c] = Len(children) + 1]
               /\ pc' = [pc EXCEPT ![c] = "insert"]
               /\ ret' = ret
            \/ \* spawn() = Err(e)
               /\ pc' = [pc EXCEPT ![c] = "done"]
               /\ ret' = [ret EXCEPT ![c] = ErrMsg("Failed to start service")]
               /\ UNCHANGED <<children, own>>
    /\ UNCHANGED <<services, svcLock, wpc, svcEvents>>

\* lines 571-652: register the child (the handle moves into the map; a handle
\* already there is dropped, which leaves its process running), spawn the
\* watcher task, return Ok
StartInsert(c) ==
    /\ pc[c] = "insert"
    /\ svcLock = 0
    /\ services' = MapInsert(services, arg[c], own[c])
    /\ children' = Ended(Registered(arg[c]), "replaced")
    /\ own' = [own EXCEPT ![c] = 0]
    /\ wpc' = [wpc EXCEPT ![c] = "poll"]
    /\ pc' = [pc EXCEPT ![c] = "done"]
    /\ ret' = [ret EXCEPT ![c] = OkUnit]
    /\ UNCHANGED <<svcLock, op, arg, svcEvents>>

\* lines 619-650: one iteration of the watcher task's loop: sleep, lock, poll.
\* The guard is dropped at the end of the iteration; nothing suspends under it.

\* a watcher that reports the exit and leaves the entry in the map
WatcherExitedKeeps(c) ==
    /\ wpc[c] = "poll"
    /\ svcLock = 0
    /\ arg[c] \in DOMAIN services
    /\ children[services[arg[c]]].st # "running"
    /\ children' = Ended(Registered(arg[c]), "exit")
    /\ svcEvents' = Append(svcEvents,
           TerminalEvent(arg[c], StatusCode(children[services[arg[c]]]), services[arg[c]]))
    /\ wpc' = [wpc EXCEPT ![c] = "done"]
    /\ UNCHANGED <<services, svcLock, pc, op, arg, own, ret>>

\* lines 626-636: try_wait() = Ok(Some(status))
WatcherExited(c) ==
    /\ wpc[c] = "poll"
    /\ svcLock = 0
    /\ arg[c] \in DOMAIN services
    /\ children[services[arg[c]]].st # "running"
    /\ services' = MapRemove(services, arg[c])
    /\ children' = Ended(Registered(arg[c]), "exit")
    /\ svcEvents' = Append(svcEvents,
           TerminalEvent(arg[c], StatusCode(children[services[arg[c]]]), services[arg[c]]))
    /\ wpc' = [wpc EXCEPT ![c] = "done"]
    /\ UNCHANGED <<svcLock, pc, op, arg, own, ret>>

\* lines 637-639: try_wait() = Ok(None), still running
WatcherRunning(c) ==
    /\ wpc[c] = "poll"
    /\ svcLock = 0
    /\ arg[c] \in DOMAIN services
    /\ children[services[arg[c]]].st = "running"
    /\ UNCHANGED <<svcVars, clVars>>

\* lines 640-643: try_wait() = Err(_)
WatcherError(c) ==
    /\ wpc[c] = "poll"
    /\ svcLock = 0
    /\ arg[c] \in DOMAIN services
    /\ services' = MapRemove(services, arg[c])
    /\ children' = Ended(Registered(arg[c]), "error")
    /\ wpc' = [wpc EXCEPT ![c] = "done"]
    /\ UNCHANGED <<svcLock, pc, op, arg, own, ret, svcEvents>>

\* a watcher that reports completion also when it finds no entry
WatcherMissingEmits(c) ==
    /\ wpc[c] = "poll"
    /\ svcLock = 0
    /\ arg[c] \notin DOMAIN services
    /\ svcEvents' = Append(svcEvents, TerminalEvent(arg[c], None, 0))
    /\ wpc' = [wpc EXCEPT ![c] = "done"]
    /\ UNCHANGED <<services, svcLock, children, pc, op, arg, own, ret>>

\* lines 645-648: no entry, the service was stopped externally
WatcherMissing(c) ==
    /\ wpc[c] = "poll"
    /\ svcLock = 0
    /\ arg[c] \notin DOMAIN services
    /\ wpc' = [wpc EXCEPT ![c] = "done"]
    /\ UNCHANGED <<services, svcLock, children, pc, op, arg, own, ret, svcEvents>>

-----------------------------------------------------------------------------
(* stop_service *)

\* lines 657-665, 668-670: lock, remove the entry, signal the process group.
\* The child was spawned without setpgid, so no process group carries its
\* pid and killpg does not reach it.  The guard stays held for child.kill().
StopTake(c, sid) ==
    /\ NextCall(c)
    /\ svcLock = 0
    /\ op' = [op EXCEPT ![c] = "stop_service"]
    /\ arg' = [arg EXCEPT ![c] = sid]
    /\ IF sid \in DOMAIN services
       THEN /\ services' = MapRemove(services, sid)
            /\ children' = Ended(Registered(sid), "stop")
            /\ own' = [own EXCEPT ![c] = services[sid]]
            /\ svcLock' = c
            /\ pc' = [pc EXCEPT ![c] = "kill"]
            /\ ret' = ret
       ELSE /\ pc' = [pc EXCEPT ![c] = "done"]
            /\ ret' = [ret EXCEPT ![c] = OkBool(FALSE)]
            /\ UNCHANGED <<services, children, own, svcLock>>
    /\ UNCHANGED <<wpc, svcEvents>>

\* line 666-667: child.kill().await completes, the guard is dropped on return
StopKill(c) ==
    /\ pc[c] = "kill"
    /\ svcLock' = 0
    /\ pc' = [pc EXCEPT ![c] = "done"]
    /\ \/ /\ children' = [children EXCEPT ![own[c]].st =
                              IF @ = "running" THEN "killed" ELSE @]
          /\ ret' = [ret EXCEPT ![c] = OkBool(TRUE)]
       \/ /\ ret' = [ret EXCEPT ![c] = ErrMsg("Failed to stop service")]
          /\ UNCHANGED children
    /\ own' = [own EXCEPT ![c] = 0]
    /\ UNCHANGED <<services, op, arg, wpc, svcEvents>>

-----------------------------------------------------------------------------
(* get_running_services *)

\* lines 674-677
ListServices(c) ==
    /\ NextCall(c)
    /\ svcLock = 0
    /\ op' = [op EXCEPT ![c] = "get_running_services"]
    /\ \E l \in KeyOrders(services) : ret' = [ret EXCEPT ![c] = OkList(l)]
    /\ pc' = [pc EXCEPT ![c] = "done"]
    /\ UNCHANGED <<services, svcLock, children, arg, own, wpc, svcEvents>>

-----------------------------------------------------------------------------
(* the environment: a running service child ends on its own *)

ServiceChildExits(k) ==
    /\ children[k].st = "running"
    /\ \E code \in ExitCodes :
          children' = [children EXCEPT ![k].st = "exited", ![k].code = code]
    /\ UNCHANGED <<services, svcLock, pc, op, arg, own, ret, wpc, svcEvents>>

-----------------------------------------------------------------------------

SvcNext ==
    \/ \E c \in Calls, sid \in ServiceIds : StartCheck(c, sid) /\ UNCHANGED <<shVars, clVars>>
    \/ \E c \in Calls : StartInsert(c) /\ UNCHANGED <<shVars, clVars>>
    \/ \E c \in Calls : WatcherExited(c) /\ UNCHANGED <<shVars, clVars>>
    \/ \E c \in Calls : WatcherRunning(c) /\ UNCHANGED <<shVars, clVars>>
    \/ \E c \in Calls : WatcherError(c) /\ UNCHANGED <<shVars, clVars>>
    \/ \E c \in Calls : WatcherMissing(c) /\ UNCHANGED <<shVars, clVars>>
    \/ \E c \in Calls, sid \in ServiceIds : StopTake(c, sid) /\ UNCHANGED <<shVars, clVars>>
    \/ \E c \in Calls : StopKill(c) /\ UNCHANGED <<shVars, clVars>>
    \/ \E c \in Calls : ListServices(c) /\ UNCHANGED <<shVars, clVars>>
    \/ \E k \in DOMAIN children : ServiceChildExits(k) /\ UNCHANGED <<shVars, clVars>>

-----------------------------------------------------------------------------
(* Values of the shell commands *)

NoShellRet ==
    [kind |-> "none", msg |-> "", flag |-> FALSE,
     stdout |-> "", stderr |-> "", exit_code |-> 0]
\* Ok(ShellOutput { stdout, stderr, exit_code })
ShellOutput(out, err, code) ==
    [kind |-> "Ok", msg |-> "", flag |-> FALSE,
     stdout |-> out, stderr |-> err, exit_code |-> code]
ShellErr(m) ==
    [kind |-> "Err", msg |-> m, flag |-> FALSE,
     stdout |-> "", stderr |-> "", exit_code |-> 0]
\* kill_shell_process: Ok(true)
ShellOkBool(b) ==
    [kind |-> "Ok", msg |-> "", flag |-> b,
     stdout |-> "", stderr |-> "", exit_code |-> 0]

\* lines 486-490: the result of a killed job
KilledOutput == ShellOutput("", "^C", 130)
\* a missing entry reported as an error
TerminatedError == ShellErr("Process terminated")

\* lines 521-525: the result of a job whose entry vanished
TerminatedOutput == ShellOutput("", "Process terminated", -1)

\* what child k wrote to its stdout / stderr
JobStdout(k) == "stdout of child " \o ToString(k)
JobStderr(k) == "stderr of child " \o ToString(k)
\* output.status.code().unwrap_or(-1)
JobExitCode(k) == IF jobs[k].st = "exited" THEN jobs[k].code ELSE -1

\* shell calls are numbered in the order in which they are issued
NextShellCall(c) ==
    jpc[c] = "idle" /\ (IF c = 1 THEN TRUE ELSE jpc[c - 1] # "idle")

\* a run_shell_command for pid is between its spawn and its return, or an
\* entry for pid is in the map
JobPresent(pid) ==
    \/ pid \in DOMAIN processes
    \/ \E c \in ShellCalls :
          jop[c] = "run_shell_command" /\ jarg[c] = pid /\ jpc[c] # "done"

\* the run_shell_command calls that spawned a job under pid
JobsOf(pid) ==
    {c \in ShellCalls :
        jop[c] = "run_shell_command" /\ jarg[c] = pid /\ jown[c] # 0}

\* a job ran under pid and every job under pid has taken its final poll tick:
\* it is past the tick's last map access (lines 476, 501) or has returned
PastFinalTick(pid) ==
    /\ JobsOf(pid) # {}
    /\ \A c \in JobsOf(pid) : jpc[c] \in {"killwait", "collect", "done"}

\* a signal or kill reaches child k: it ends unless it has ended already
Killed(js, k) == [js EXCEPT ![k].st = IF @ = "running" THEN "killed" ELSE @]

-----------------------------------------------------------------------------
(* run_shell_command *)

\* lines 441-462: build the command and spawn it (synchronous)
RunSpawn(c, pid) ==
    /\ NextShellCall(c)
    /\ jop' = [jop EXCEPT ![c] = "run_shell_command"]
    /\ jarg' = [jarg EXCEPT ![c] = pid]
    /\ \/ \* spawn() = Ok(child)
          /\ jobs' = Append(jobs, [pid |-> pid, st |-> "running", code |-> 0])
          /\ jown' = [jown EXCEPT ![c] = Len(jobs) + 1]
          /\ jpc' = [jpc EXCEPT ![c] = "insert"]
          /\ jret' = jret
       \/ \* spawn() = Err(e)
          /\ jpc' = [jpc EXCEPT ![c] = "done"]
          /\ jret' = [jret EXCEPT ![c] = ShellErr("Failed to spawn command")]
          /\ UNCHANGED <<jobs, jown>>
    /\ UNCHANGED <<processes, signals, procLock, killLock, jtaken, stale, late>>

\* lines 463-466: the handle moves into the map; a handle already stored
\* under the id is dropped, which leaves its process running
RunInsert(c) ==
    /\ jpc[c] = "insert"
    /\ procLock = 0
    /\ processes' = MapInsert(processes, jarg[c], jown[c])
    /\ jpc' = [jpc EXCEPT ![c] = "tick"]
    /\ UNCHANGED <<signals, procLock, killLock, jobs, jop, jarg, jown, jtaken,
                   jret, stale, late>>

\* a tick that goes on to poll the child without looking at KILL_SIGNALS
RunTickNoKillUnchecked(c) ==
    /\ jpc[c] = "tick"
    /\ killLock = 0
    /\ jpc' = [jpc EXCEPT ![c] = "poll"]
    /\ UNCHANGED <<processes, signals, procLock, killLock, jobs, jop, jarg,
                   jown, jtaken, jret, stale, late>>

\* lines 471-473, 492: the tick finds no kill request; the guard is dropped
RunTickNoKill(c) ==
    /\ jpc[c] = "tick"
    /\ killLock = 0
    /\ jarg[c] \notin signals
    /\ jpc' = [jpc EXCEPT ![c] = "poll"]
    /\ UNCHANGED <<processes, signals, procLock, killLock, jobs, jop, jarg,
                   jown, jtaken, jret, stale, late>>

\* lines 471-474: the tick consumes the kill request and keeps the guard
RunTickKill(c) ==
    /\ jpc[c] = "tick"
    /\ killLock = 0
    /\ jarg[c] \in signals
    /\ signals' = signals \ {jarg[c]}
    /\ stale' = stale \ {jarg[c]}
    /\ late' = late \ {jarg[c]}
    /\ killLock' = c
    /\ jpc' = [jpc EXCEPT ![c] = "killtake"]
    /\ UNCHANGED <<processes, procLock, jobs, jop, jarg, jown, jtaken, jret>>

\* a lookup that leaves the entry in the map
TakeProcessKeeps(pid) == processes

\* processes.remove(&process_id)
TakeProcess(pid) == MapRemove(processes, pid)

\* lines 475-483, 486-490: lock the map under the KILL_SIGNALS guard, remove
\* the entry and signal the group of this call's own child (child_pid);
\* with no entry the call returns at once and both guards are dropped
RunKillTake(c) ==
    /\ jpc[c] = "killtake"
    /\ procLock = 0
    /\ IF jarg[c] \in DOMAIN processes
       THEN /\ processes' = TakeProcess(jarg[c])
            /\ jtaken' = [jtaken EXCEPT ![c] = processes[jarg[c]]]
            /\ jobs' = Killed(jobs, jown[c])
            /\ procLock' = c
            /\ jpc' = [jpc EXCEPT ![c] = "killwait"]
            /\ UNCHANGED <<killLock, jret>>
       ELSE /\ killLock' = 0
            /\ jpc' = [jpc EXCEPT ![c] = "done"]
            /\ jret' = [jret EXCEPT ![c] = KilledOutput]
            /\ UNCHANGED <<processes, jtaken, jobs, procLock>>
    /\ UNCHANGED <<signals, jop, jarg, jown, stale, late>>

\* lines 484-490: child.kill().await on the removed handle completes (its
\* result is discarded); the call returns and both guards are dropped
RunKillWait(c) ==
    /\ jpc[c] = "killwait"
    /\ \/ jobs' = Killed(jobs, jtaken[c])
       \/ jobs' = jobs
    /\ procLock' = 0
    /\ killLock' = 0
    /\ jpc' = [jpc EXCEPT ![c] = "done"]
    /\ jret' = [jret EXCEPT ![c] = KilledOutput]
    /\ UNCHANGED <<processes, signals, jop, jarg, jown, jtaken, stale, late>>

\* lines 496-501: try_wait() = Ok(Some(_)) on the handle stored under the id:
\* it is removed, and the guard stays held for wait_with_output()
RunPollExited(c) ==
    /\ jpc[c] = "poll"
    /\ procLock = 0
    /\ jarg[c] \in DOMAIN processes
    /\ jobs[processes[jarg[c]]].st # "running"
    /\ processes' = TakeProcess(jarg[c])
    /\ jtaken' = [jtaken EXCEPT ![c] = processes[jarg[c]]]
    /\ procLock' = c
    /\ jpc' = [jpc EXCEPT ![c] = "collect"]
    /\ UNCHANGED <<signals, killLock, jobs, jop, jarg, jown, jret, stale, late>>

\* a collection that also clears the id's kill request, taking KILL_SIGNALS
\* while it holds RUNNING_PROCESSES
RunCollectClearsSignal(c) ==
    /\ jpc[c] = "collect"
    /\ killLock = 0
    /\ signals' = signals \ {jarg[c]}
    /\ procLock' = 0
    /\ jpc' = [jpc EXCEPT ![c] = "done"]
    /\ jret' = [jret EXCEPT ![c] =
                    ShellOutput(JobStdout(jtaken[c]), JobStderr(jtaken[c]),
                                JobExitCode(jtaken[c]))]
    /\ UNCHANGED <<processes, killLock, jobs, jop, jarg, jown, jtaken,
                   stale, late>>

\* lines 502-508: wait_with_output().await completes; the guard is dropped
RunCollect(c) ==
    /\ jpc[c] = "collect"
    /\ procLock' = 0
    /\ jpc' = [jpc EXCEPT ![c] = "done"]
    /\ \/ jret' = [jret EXCEPT ![c] =
                      ShellOutput(JobStdout(jtaken[c]), JobStderr(jtaken[c]),
                                  JobExitCode(jtaken[c]))]
       \/ jret' = [jret EXCEPT ![c] = ShellErr("Failed to get output")]
    /\ UNCHANGED <<processes, signals, killLock, jobs, jop, jarg, jown, jtaken,
                   stale, late>>

\* lines 511-513, 530: try_wait() = Ok(None); sleep, then the next tick
RunPollRunning(c) ==
    /\ jpc[c] = "poll"
    /\ procLock = 0
    /\ jarg[c] \in DOMAIN processes
    /\ jobs[processes[jarg[c]]].st = "running"
    /\ jpc' = [jpc EXCEPT ![c] = "tick"]
    /\ UNCHANGED <<processes, signals, procLock, killLock, jobs, jop, jarg,
                   jown, jtaken, jret, stale, late>>

\* lines 514-517: try_wait() = Err(e)
RunPollError(c) ==
    /\ jpc[c] = "poll"
    /\ procLock = 0
    /\ jarg[c] \in DOMAIN processes
    /\ processes' = MapRemove(processes, jarg[c])
    /\ jpc' = [jpc EXCEPT ![c] = "done"]
    /\ jret' = [jret EXCEPT ![c] = ShellErr("Error checking process")]
    /\ UNCHANGED <<signals, procLock, killLock, jobs, jop, jarg, jown, jtaken,
                   stale, late>>

\* lines 519-526: no entry under the id
RunPollMissing(c) ==
    /\ jpc[c] = "poll"
    /\ procLock = 0
    /\ jarg[c] \notin DOMAIN processes
    /\ jpc' = [jpc EXCEPT ![c] = "done"]
    /\ jret' = [jret EXCEPT ![c] = TerminatedOutput]
    /\ UNCHANGED <<processes, signals, procLock, killLock, jobs, jop, jarg,
                   jown, jtaken, stale, late>>

-----------------------------------------------------------------------------
(* kill_shell_process *)

\* lines 535-540
KillShellProcess(c, pid) ==
    /\ NextShellCall(c)
    /\ killLock = 0
    /\ jop' = [jop EXCEPT ![c] = "kill_shell_process"]
    /\ jarg' = [jarg EXCEPT ![c] = pid]
    /\ signals' = signals \cup {pid}
    /\ stale' = IF JobPresent(pid) THEN stale \ {pid} ELSE stale \cup {pid}
    /\ late' = IF pid \notin signals /\ PastFinalTick(pid)
               THEN late \cup {pid}
               ELSE late
    /\ jpc' = [jpc EXCEPT ![c] = "done"]
    /\ jret' = [jret EXCEPT ![c] = ShellOkBool(TRUE)]
    /\ UNCHANGED <<processes, procLock, killLock, jobs, jown, jtaken>>

-----------------------------------------------------------------------------
(* the environment: a running shell child ends on its own *)

JobExits(k) ==
    /\ jobs[k].st = "running"
    /\ \E code \in ExitCodes :
          jobs' = [jobs EXCEPT ![k].st = "exited", ![k].code = code]
    /\ UNCHANGED <<processes, signals, procLock, killLock, jpc, jop, jarg,
                   jown, jtaken, jret, stale, late>>

-----------------------------------------------------------------------------

ShNext ==
    \/ \E c \in ShellCalls, pid \in ProcessIds : RunSpawn(c, pid) /\ UNCHANGED <<svcVars, clVars>>
    \/ \E c \in ShellCalls : RunInsert(c) /\ UNCHANGED <<svcVars, clVars>>
    \/ \E c \in ShellCalls : RunTickNoKill(c) /\ UNCHANGED <<svcVars, clVars>>
    \/ \E c \in ShellCalls : RunTickKill(c) /\ UNCHANGED <<svcVars, clVars>>
    \/ \E c \in ShellCalls : RunKillTake(c) /\ UNCHANGED <<svcVars, clVars>>
    \/ \E c \in ShellCalls : RunKillWait(c) /\ UNCHANGED <<svcVars, clVars>>
    \/ \E c \in ShellCalls : RunPollExited(c) /\ UNCHANGED <<svcVars, clVars>>
    \/ \E c \in ShellCalls : RunCollect(c) /\ UNCHANGED <<svcVars, clVars>>
    \/ \E c \in ShellCalls : RunPollRunning(c) /\ UNCHANGED <<svcVars, clVars>>
    \/ \E c \in ShellCalls : RunPollError(c) /\ UNCHANGED <<svcVars, clVars>>
    \/ \E c \in ShellCalls : RunPollMissing(c) /\ UNCHANGED <<svcVars, clVars>>
    \/ \E c \in ShellCalls, pid \in ProcessIds : KillShellProcess(c, pid) /\ UNCHANGED <<svcVars, clVars>>
    \/ \E k \in DOMAIN jobs : JobExits(k) /\ UNCHANGED <<svcVars, clVars>>

-----------------------------------------------------------------------------
(* send_to_claude: values *)

\* A string is a sequence of one-character strings, so that trimming,
\* concatenation and substring search are computed as the code computes them;
\* the fixed prefix of a formatted message is kept as one element.

Boom == <<"b", "o", "o", "m">>

\* char::is_whitespace over the characters used
IsSpace(ch) == ch \in {" ", "\n"}

\* str::trim(): leading and trailing whitespace removed
RECURSIVE TrimStart(_)
TrimStart(str) ==
    IF str # <<>> /\ IsSpace(Head(str)) THEN TrimStart(Tail(str)) ELSE str
RECURSIVE TrimEnd(_)
TrimEnd(str) ==
    IF str # <<>> /\ IsSpace(str[Len(str)])
    THEN TrimEnd(SubSeq(str, 1, Len(str) - 1))
    ELSE str
Trim(str) == TrimEnd(TrimStart(str))

\* str::to_lowercase() over the characters used
LowerChar(ch) ==
    CASE ch = "E" -> "e"
      [] ch = "R" -> "r"
      [] ch = "O" -> "o"
      [] OTHER -> ch
ToLowercase(str) == [i \in DOMAIN str |-> LowerChar(str[i])]

\* str::contains(pat)
Contains(str, pat) ==
    \E i \in 0..(Len(str) - Len(pat)) : SubSeq(str, i + 1, i + Len(pat)) = pat

\* lines 31-39: ClaudeResponse; src (history) names the line and the content
\* item the event was emitted for, <<0, 0>> for the terminal event
ClaudeResponse(content, complete, thinking, tokens, src) ==
    [content |-> content, is_complete |-> complete, thinking |-> thinking,
     tokens_used |-> tokens, src |-> src]

\* lines 41-45: the result of the command
NoClaudeRet == [kind |-> "none", err |-> <<>>, response |-> <<>>, session_id |-> None]
ClaudeOk(response, sid) ==
    [kind |-> "Ok", err |-> <<>>, response |-> response, session_id |-> sid]
ClaudeErr(msg) ==
    [kind |-> "Err", err |-> msg, response |-> <<>>, session_id |-> None]

\* one line of the child's stdout: utf8 is FALSE when its bytes are not valid
\* UTF-8 (next_line() then fails instead of yielding it); json is FALSE when
\* serde_json does not parse it; the other fields are the members the code
\* reads (None: the member is absent or not of the type the code asks for)
Line ==
    [utf8 |-> TRUE, json |-> TRUE, type |-> "", error |-> None, message |-> None,
     content |-> None, is_error |-> FALSE, result |-> None,
     session_id |-> None, usage |-> None, stats |-> None]

\* the "error" member: an object with or without a string "message", or a string
ErrObject(m) == [message |-> m, str |-> None]
ErrString(x) == [message |-> None, str |-> Some(x)]
\* a content item: its "type" and the member read for that type
\* ("text", "thinking" or "name")
Item(t, v) == [type |-> t, val |-> v]
\* the "usage" / "stats" member
Usage(total, input, output) == [total_tokens |-> total, input_tokens |-> input,
                                output_tokens |-> output]

\* the lines the child may write
Malformed == [Line EXCEPT !.json = FALSE]
\* a line whose bytes are not valid UTF-8 (and so is not JSON either)
NotUtf8 == [Line EXCEPT !.utf8 = FALSE, !.json = FALSE]
ErrNested ==
    [Line EXCEPT !.type = "error", !.error = Some(ErrObject(Some(<<"x">>))),
                 !.message = Some(<<"m">>)]
ErrOpaque == [Line EXCEPT !.type = "error", !.error = Some(ErrObject(None))]
ErrText == [Line EXCEPT !.type = "error", !.error = Some(ErrString(<<"y">>))]
ErrTop == [Line EXCEPT !.type = "error", !.message = Some(<<"m">>)]
ErrBare == [Line EXCEPT !.type = "error"]
SysError ==
    [Line EXCEPT !.type = "system",
                 !.message = Some(<<"a", "n", " ", "E", "r", "r", "o", "r">>)]
SysInfo == [Line EXCEPT !.type = "system", !.message = Some(<<"o", "k">>)]
AsstMixed ==
    [Line EXCEPT !.type = "assistant",
                 !.content = Some(<<Item("text", Some(<<" ", "a">>)),
                                    Item("thinking", Some(<<"t">>)),
                                    Item("tool_use", Some(<<"n">>))>>)]
AsstText ==
    [Line EXCEPT !.type = "assistant",
                 !.content = Some(<<Item("text", Some(<<"b", " ">>))>>)]
AsstOdd ==
    [Line EXCEPT !.type = "assistant",
                 !.content = Some(<<Item("text", None), Item("image", None),
                                    Item("tool_use", None),
                                    Item("text", Some(<<>>))>>)]
AsstEmpty == [Line EXCEPT !.type = "assistant"]
ResBoom ==
    [Line EXCEPT !.type = "result", !.is_error = TRUE, !.result = Some(Boom),
                 !.usage = Some(Usage(None, Some(2), Some(3)))]
ResOk ==
    [Line EXCEPT !.type = "result", !.result = Some(<<" ", "r">>),
                 !.session_id = Some(<<"s", "1">>),
                 !.usage = Some(Usage(Some(5), Some(1), None))]
ResBare ==
    [Line EXCEPT !.type = "result", !.session_id = Some(<<"s", "2">>),
                 !.stats = Some(Usage(None, Some(1), Some(1)))]
ResErrBare == [Line EXCEPT !.type = "result", !.is_error = TRUE]
Unknown == [Line EXCEPT !.type = "ping"]

Lines == {Malformed, ErrNested, ErrOpaque, ErrText, ErrTop, ErrBare, SysError,
          SysInfo, AsstMixed, AsstText, AsstOdd, AsstEmpty, ResBoom, ResOk,
          ResBare, ResErrBare, Unknown}

\* lines 47-57: IntegrationConfig
IntegrationConfig(id, type, cmd, args, env, key) ==
    [id |-> id, integration_type |-> type, server_command |-> cmd,
     server_args |-> args, env_variable |-> env, api_key |-> key]
McpX == IntegrationConfig("x", "mcp", Some("foo"), Some(<<"a">>), None, None)
McpNoCommand == IntegrationConfig("c", "mcp", None, Some(<<"a">>), None, None)
McpNoArgs == IntegrationConfig("d", "mcp", Some("foo"), None, None, None)
KeyK == IntegrationConfig("k", "api-key", None, None, Some("API_KEY"), Some(<<"s">>))
KeyEmpty == IntegrationConfig("e", "api-key", None, None, Some("API_KEY"), Some(<<>>))
KeyNoEnv == IntegrationConfig("n", "api-key", None, None, None, Some(<<"s">>))
Webhook == IntegrationConfig("w", "webhook", None, None, None, None)

\* the values of the integrations argument that are tried
IntegrationInputs ==
    {None,
     Some(<<McpX>>),
     Some(<<KeyK>>),
     Some(<<McpNoCommand, McpNoArgs, KeyEmpty, KeyNoEnv, Webhook>>)}

\* what the stderr reader task collected (line 250-259): each line and "\n"
RECURSIVE StderrOutput(_)
StderrOutput(errLines) ==
    IF errLines = <<>> THEN <<>>
    ELSE Head(errLines) \o <<"\n">> \o StderrOutput(Tail(errLines))
StderrInputs == {<<>>, << <<"o", "o", "p", "s">> >>}

\* the exit statuses of the child; ExitStatus::success()
ExitStatuses == {"exit status: 0", "exit status: 1"}
Success(st) == st = "exit status: 0"

-----------------------------------------------------------------------------
(* send_to_claude: integrations (lines 178-229) *)

Last(sq) == sq[Len(sq)]
Front(sq) == SubSeq(sq, 1, Len(sq) - 1)

\* lines 184-195: the server map built by the loop over the integrations
RECURSIVE McpServers(_)
McpServers(ints) ==
    IF ints = <<>> THEN << >>
    ELSE LET int == Last(ints) IN
         IF /\ int.integration_type = "mcp"
            /\ int.server_command # None
            /\ int.server_args # None
         THEN MapInsert(McpServers(Front(ints)), int.id,
                        [command |-> int.server_command[1],
                         args |-> int.server_args[1]])
         ELSE McpServers(Front(ints))

\* lines 196-204: an api-key integration sets its variable when it has a
\* variable name and a non-empty key
InjectsKey(int) ==
    /\ int.integration_type = "api-key"
    /\ int.env_variable # None
    /\ int.api_key # None
    /\ int.api_key[1] # <<>>

RECURSIVE ApiKeyEnv(_)
ApiKeyEnv(ints) ==
    IF ints = <<>> THEN << >>
    ELSE IF InjectsKey(Last(ints))
         THEN MapInsert(ApiKeyEnv(Front(ints)), Last(ints).env_variable[1],
                        Last(ints).api_key[1])
         ELSE ApiKeyEnv(Front(ints))

\* has_api_key_integrations after the loop
HasApiKeyIntegrations(ints) == \E i \in DOMAIN ints : InjectsKey(ints[i])

\* lines 65-69, 213: the document serialized to the temp file
McpConfig(servers) == [mcpServers |-> servers]

\* a config that is written only when there are servers to list
WritesConfigServersOnly(ints) == McpServers(ints) # << >>

\* line 212: whether the MCP config file is written
WritesConfig(ints) == McpServers(ints) # << >> \/ HasApiKeyIntegrations(ints)

\* lines 161-229: build the command; write the temp MCP config when needed
ClConfigure(ints) ==
    /\ cpc = "start"
    /\ integrations' = ints
    /\ IF ints # None /\ WritesConfig(ints[1])
       THEN \/ \* tokio::fs::write succeeds
               /\ mcpFile' = Some(McpConfig(McpServers(ints[1])))
               /\ mcpFlag' = TRUE
               /\ temp_mcp_config_path' = TRUE
               /\ childEnv' = ApiKeyEnv(ints[1])
               /\ cpc' = "spawn"
               /\ cret' = cret
            \/ \* tokio::fs::write fails
               /\ childEnv' = ApiKeyEnv(ints[1])
               /\ cpc' = "done"
               /\ cret' = ClaudeErr(<<"Failed to write MCP config: ">>)
               /\ UNCHANGED <<mcpFile, mcpFlag, temp_mcp_config_path>>
       ELSE /\ childEnv' = (IF ints = None THEN << >> ELSE ApiKeyEnv(ints[1]))
            /\ cpc' = "spawn"
            /\ UNCHANGED <<mcpFile, mcpFlag, temp_mcp_config_path, cret>>
    /\ UNCHANGED <<lines, full_response, total_tokens, result_session_id,
                   error_message, clEvents, status,
                   stderr_output>>

\* lines 231-267: spawn the child, take its pipes, start the stderr reader
ClSpawn ==
    /\ cpc = "spawn"
    /\ \/ /\ cpc' = "read"
          /\ cret' = cret
       \/ /\ cpc' = "done"
          /\ cret' = ClaudeErr(<<"Failed to spawn claude: ">>)
    /\ UNCHANGED <<integrations, mcpFile, mcpFlag, childEnv,
                   temp_mcp_config_path, lines, full_response, total_tokens,
                   result_session_id, error_message, clEvents, status,
                   stderr_output>>

-----------------------------------------------------------------------------
(* send_to_claude: one stdout line (lines 269-379) *)

UnknownError == <<"Unknown error">>

\* lines 277-284: the message an error frame sets, None when it sets none
ErrorFrameMessage(f) ==
    IF f.error # None
    THEN LET err == f.error[1] IN
         Some(IF err.message # None THEN err.message[1]
              ELSE IF err.str # None THEN err.str[1]
              ELSE UnknownError)
    ELSE f.message

\* lines 288-291: the message a system frame sets
SystemFrameMessage(f) ==
    IF f.message # None
       /\ Contains(ToLowercase(f.message[1]), <<"e", "r", "r", "o", "r">>)
    THEN f.message
    ELSE None

\* a result frame whose error flag is not looked at
ResultFrameMessageNone(f) == None

\* lines 342-347: the message a result frame sets
ResultFrameMessage(f) == IF f.result # None /\ f.is_error THEN f.result ELSE None

\* error_message after the frame
ErrorAfter(f, pending) ==
    LET set == CASE f.type = "error" -> ErrorFrameMessage(f)
                 [] f.type = "system" -> SystemFrameMessage(f)
                 [] f.type = "result" -> ResultFrameMessage(f)
                 [] OTHER -> None
    IN IF set # None THEN set ELSE pending

\* lines 324-325: the narration of a tool use
ToolName(item) == IF item.val # None THEN item.val[1] ELSE <<"t", "o", "o", "l">>
UsingTool(item) == <<"Using ">> \o ToolName(item) \o <<"...">>

\* lines 299-335: the events one content item emits (none or one)
ItemEvents(item, src) ==
    CASE item.type = "text" /\ item.val # None ->
            <<ClaudeResponse(item.val[1], FALSE, None, None, src)>>
      [] item.type = "thinking" /\ item.val # None ->
            <<ClaudeResponse(<<>>, FALSE, Some(item.val[1]), None, src)>>
      [] item.type = "tool_use" ->
            <<ClaudeResponse(<<>>, FALSE, Some(UsingTool(item)), None, src)>>
      [] OTHER -> <<>>

\* an aggregate that takes in the text of every content item
ItemTextAny(item) == IF item.val # None THEN item.val[1] ELSE <<>>

\* line 303: the text one content item appends to full_response
ItemText(item) ==
    IF item.type = "text" /\ item.val # None THEN item.val[1] ELSE <<>>

\* the events of the items from the i-th on, in the order of the loop at 298
RECURSIVE ContentEvents(_, _, _)
ContentEvents(items, i, lineNo) ==
    IF i > Len(items) THEN <<>>
    ELSE ItemEvents(items[i], <<lineNo, i>>) \o ContentEvents(items, i + 1, lineNo)

RECURSIVE ContentText(_)
ContentText(items) ==
    IF items = <<>> THEN <<>> ELSE ItemText(Head(items)) \o ContentText(Tail(items))

\* the content array of an assistant frame (lines 296-297), empty otherwise
ContentOf(f) ==
    IF f.type = "assistant" /\ f.content # None THEN f.content[1] ELSE <<>>

\* an aggregate that never adopts the result text
ResponseAfterNoAdopt(f, full) ==
    IF f.type = "assistant" THEN full \o ContentText(ContentOf(f)) ELSE full

\* full_response after the frame (lines 303, 345-350)
ResponseAfter(f, full) ==
    CASE f.type = "assistant" -> full \o ContentText(ContentOf(f))
      [] f.type = "result" ->
            IF f.result # None /\ ~f.is_error /\ full = <<>>
            THEN f.result[1]
            ELSE full
      [] OTHER -> full

\* result_session_id after the frame (lines 353-355)
SessionAfter(f, sid) ==
    IF f.type = "result" /\ f.session_id # None THEN f.session_id ELSE sid

OrZero(v) == IF v = None THEN 0 ELSE v[1]

\* total_tokens after the frame (lines 357-374)
TokensAfter(f, tokens) ==
    IF f.type # "result" THEN tokens
    ELSE LET fromUsage ==
                 IF f.usage = None THEN tokens
                 ELSE IF f.usage[1].total_tokens # None
                      THEN f.usage[1].total_tokens[1]
                      ELSE OrZero(f.usage[1].input_tokens)
                           + OrZero(f.usage[1].output_tokens)
         IN IF fromUsage = 0 /\ f.stats # None
            THEN OrZero(f.stats[1].input_tokens) + OrZero(f.stats[1].output_tokens)
            ELSE fromUsage

\* a channel that puts the newest events first
EmitFirst(events, new) == new \o events

\* events reach the subscriber in the order of the emit calls
Emit(events, new) == events \o new

\* lines 269-379: next_line() yields a line; a line that is not JSON is skipped
ClReadLine(f) ==
    /\ cpc = "read"
    /\ Len(lines) < MaxLines
    /\ lines' = Append(lines, f)
    /\ IF f.json
       THEN /\ error_message' = ErrorAfter(f, error_message)
            /\ full_response' = ResponseAfter(f, full_response)
            /\ clEvents' = Emit(clEvents, ContentEvents(ContentOf(f), 1, Len(lines) + 1))
            /\ result_session_id' = SessionAfter(f, result_session_id)
            /\ total_tokens' = TokensAfter(f, total_tokens)
       ELSE UNCHANGED <<error_message, full_response, clEvents,
                        result_session_id, total_tokens>>
    /\ UNCHANGED <<cpc, integrations, mcpFile, mcpFlag, childEnv,
                   temp_mcp_config_path, status, stderr_output, cret>>

\* line 269: next_line() fails on an I/O error of the pipe; the error is
\* returned by `?`
ClReadError ==
    /\ cpc = "read"
    /\ cpc' = "done"
    /\ cret' = ClaudeErr(<<"stream error">>)
    /\ UNCHANGED <<integrations, mcpFile, mcpFlag, childEnv,
                   temp_mcp_config_path, lines, full_response, total_tokens,
                   result_session_id, error_message, clEvents, status,
                   stderr_output>>

\* line 269: the next line is not valid UTF-8: read_line() into a String
\* fails with InvalidData and the error is returned by `?`
ClReadNotUtf8 ==
    /\ cpc = "read"
    /\ Len(lines) < MaxLines
    /\ lines' = Append(lines, NotUtf8)
    /\ cpc' = "done"
    /\ cret' = ClaudeErr(<<"stream did not contain valid UTF-8">>)
    /\ UNCHANGED <<integrations, mcpFile, mcpFlag, childEnv,
                   temp_mcp_config_path, full_response, total_tokens,
                   result_session_id, error_message, clEvents, status,
                   stderr_output>>

\* line 269: next_line() = None, the end of the stream
ClReadEof ==
    /\ cpc = "read"
    /\ cpc' = "wait"
    /\ UNCHANGED <<integrations, mcpFile, mcpFlag, childEnv,
                   temp_mcp_config_path, lines, full_response, total_tokens,
                   result_session_id, error_message, clEvents, status,
                   stderr_output, cret>>

-----------------------------------------------------------------------------
(* send_to_claude: termination (lines 381-422) *)

\* line 381: child.wait() fails; the error is returned by `?`
ClWaitError ==
    /\ cpc = "wait"
    /\ cpc' = "done"
    /\ cret' = ClaudeErr(<<"wait error">>)
    /\ UNCHANGED <<integrations, mcpFile, mcpFlag, childEnv,
                   temp_mcp_config_path, lines, full_response, total_tokens,
                   result_session_id, error_message, clEvents, status,
                   stderr_output>>

\* a resolution that prefers the stderr text to the pending error
FailureMessageStderrFirst(st, err) ==
    IF err # <<>> THEN <<"Claude error: ">> \o err
    ELSE IF error_message # None THEN error_message[1]
    ELSE <<"Claude exited with status: ", st>>

\* lines 395-403: the message of a turn whose child exited with failure
FailureMessage(st, err) ==
    IF error_message # None THEN error_message[1]
    ELSE IF err # <<>> THEN <<"Claude error: ">> \o err
    ELSE <<"Claude exited with status: ", st>>

\* lines 411-416: the terminal event
CompleteEvent ==
    ClaudeResponse(<<>>, TRUE, None,
                   IF total_tokens > 0 THEN Some(total_tokens) ELSE None, <<0, 0>>)

\* lines 381-422: the child has exited with status; join the stderr reader,
\* remove the temp file, resolve the outcome
ClFinish(st, errLines) ==
    /\ cpc = "wait"
    /\ cpc' = "done"
    /\ status' = Some(st)
    /\ stderr_output' = StderrOutput(errLines)
    /\ mcpFile' = IF temp_mcp_config_path THEN None ELSE mcpFile
    /\ IF ~Success(st)
       THEN /\ cret' = ClaudeErr(FailureMessage(st, StderrOutput(errLines)))
            /\ clEvents' = clEvents
       ELSE IF error_message # None
       THEN /\ cret' = ClaudeErr(error_message[1])
            /\ clEvents' = clEvents
       ELSE /\ clEvents' = Emit(clEvents, <<CompleteEvent>>)
            /\ cret' = ClaudeOk(Trim(full_response), result_session_id)
    /\ UNCHANGED <<integrations, mcpFlag, childEnv, temp_mcp_config_path, lines,
                   full_response, total_tokens, result_session_id, error_message>>

ClNext ==
    \/ \E ints \in IntegrationInputs : ClConfigure(ints) /\ UNCHANGED <<svcVars, shVars>>
    \/ ClSpawn /\ UNCHANGED <<svcVars, shVars>>
    \/ \E f \in Lines : ClReadLine(f) /\ UNCHANGED <<svcVars, shVars>>
    \/ ClReadError /\ UNCHANGED <<svcVars, shVars>>
    \/ ClReadNotUtf8 /\ UNCHANGED <<svcVars, shVars>>
    \/ ClReadEof /\ UNCHANGED <<svcVars, shVars>>
    \/ ClWaitError /\ UNCHANGED <<svcVars, shVars>>
    \/ \E st \in ExitStatuses, errLines \in StderrInputs :
          ClFinish(st, errLines) /\ UNCHANGED <<svcVars, shVars>>

\* the state after construction: empty maps, free locks, nothing issued
Init ==
    /\ services = << >>
    /\ svcLock = 0
    /\ children = << >>
    /\ pc = [c \in Calls |-> "idle"]
    /\ op = [c \in Calls |-> "none"]
    /\ arg = [c \in Calls |-> "none"]
    /\ own = [c \in Calls |-> 0]
    /\ ret = [c \in Calls |-> NoRet]
    /\ wpc = [c \in Calls |-> "none"]
    /\ svcEvents = << >>
    /\ processes = << >>
    /\ signals = {}
    /\ procLock = 0
    /\ killLock = 0
    /\ jobs = << >>
    /\ jpc = [c \in ShellCalls |-> "idle"]
    /\ jop = [c \in ShellCalls |-> "none"]
    /\ jarg = [c \in ShellCalls |-> "none"]
    /\ jown = [c \in ShellCalls |-> 0]
    /\ jtaken = [c \in ShellCalls |-> 0]
    /\ jret = [c \in ShellCalls |-> NoShellRet]
    /\ stale = {}
    /\ late = {}
    /\ cpc = "start"
    /\ integrations = None
    /\ mcpFile = None
    /\ mcpFlag = FALSE
    /\ childEnv = << >>
    /\ temp_mcp_config_path = FALSE
    /\ lines = << >>
    /\ full_response = << >>
    /\ total_tokens = 0
    /\ result_session_id = None
    /\ error_message = None
    /\ clEvents = << >>
    /\ status = None
    /\ stderr_output = << >>
    /\ cret = NoClaudeRet

vars == <<svcVars, shVars, clVars>>

SpecService == Init /\ [][SvcNext]_vars

SpecShell == Init /\ [][ShNext]_vars

SpecClaude == Init /\ [][ClNext]_vars

\* The scheduling of the services.  The tokio runtime runs every spawned task
\* and every command that was invoked, and its Mutex hands the lock out in
\* FIFO order, so a step that waits for RUNNING_SERVICES is taken when the
\* lock is free again and again (lines 571, 623), and child.kill().await
\* completes (line 666).  A watcher's poll takes the arm that the state of
\* the map and of the child selects (lines 624-648).  Nothing obliges the
\* user to invoke a command, a child to exit, or try_wait() to fail.
SpecServiceFair ==
    /\ Init
    /\ [][SvcNext]_vars
    /\ \A c \in Calls : SF_vars(StartInsert(c) /\ UNCHANGED <<shVars, clVars>>)
    /\ \A c \in Calls : WF_vars(StopKill(c) /\ UNCHANGED <<shVars, clVars>>)
    /\ \A c \in Calls : SF_vars(WatcherExited(c) /\ UNCHANGED <<shVars, clVars>>)
    /\ \A c \in Calls : SF_vars(WatcherMissing(c) /\ UNCHANGED <<shVars, clVars>>)

-----------------------------------------------------------------------------
(* Properties of the service registry *)

\* number of entries of the sequence l that equal x
CountIn(l, x) == Cardinality({i \in DOMAIN l : l[i] = x})

\* terminal events that carry service id sid / that were emitted for child k
TerminalOf(sid) ==
    {i \in DOMAIN svcEvents :
        svcEvents[i].is_complete /\ svcEvents[i].service_id = sid}
TerminalFor(k) ==
    {i \in DOMAIN svcEvents : svcEvents[i].is_complete /\ svcEvents[i].child = k}

\* no command and no watcher task is in flight
SvcQuiescent ==
    /\ \A c \in Calls : pc[c] \in {"idle", "done"}
    /\ \A c \in Calls : wpc[c] \in {"none", "done"}

\* C1: a start_service issued for an id that is in RUNNING_SERVICES returns
\* the error, spawns no child and leaves the map as it was, so that any
\* listing of the map shows the id exactly once.
C1_DuplicateStartRejected ==
    [][\A c \in Calls, sid \in ServiceIds :
          (/\ NextCall(c)
           /\ sid \in DOMAIN services
           /\ op'[c] = "start_service"
           /\ arg'[c] = sid)
          => (/\ pc'[c] = "done"
              /\ ret'[c] = ErrMsg("Service is already running")
              /\ children' = children
              /\ services' = services
              /\ \A l \in KeyOrders(services') : CountIn(l, sid) = 1)]_vars

\* C1 witness: a start was rejected and the id is still registered
C1_Witness ==
    \E c \in Calls :
        /\ op[c] = "start_service"
        /\ ret[c] = ErrMsg("Service is already running")
        /\ arg[c] \in DOMAIN services

\* C2: services are exclusive by id under every interleaving: never are two
\* children that were started under the same service id alive together.
C2_ExclusiveById ==
    \A j, k \in DOMAIN children :
        (j # k /\ children[j].sid = children[k].sid)
        => ~(children[j].st = "running" /\ children[k].st = "running")

-----------------------------------------------------------------------------
(* Properties of the shell jobs *)

\* call c takes the step on which run_shell_command returns after it has
\* consumed a kill request
ReturnsAfterKill(c) ==
    jpc[c] \in {"killtake", "killwait"} /\ jpc'[c] = "done"

\* C3: when the poll loop has consumed a kill request for its id, the call
\* returns exactly {stdout "", stderr "^C", exit_code 130}, and when it
\* returns the id is neither in KILL_SIGNALS nor in RUNNING_PROCESSES.
C3_KilledResult ==
    [][\A c \in ShellCalls :
          ReturnsAfterKill(c)
          => (/\ jret'[c] = ShellOutput("", "^C", 130)
              /\ jarg[c] \notin signals'
              /\ jarg[c] \notin DOMAIN processes')]_vars

\* C3 witness: a job was killed in mid-flight: the call returned the killed
\* result, its child was running until the kill, and the id is gone
C3_Witness ==
    \E c \in ShellCalls :
        /\ jop[c] = "run_shell_command"
        /\ jret[c] = KilledOutput
        /\ jtaken[c] = jown[c]
        /\ jobs[jown[c]].st = "killed"
        /\ jarg[c] \notin signals
        /\ jarg[c] \notin DOMAIN processes

\* C4: kill_shell_process for an id with no registered job returns Ok(true),
\* removes and kills nothing, and changes the result of no run_shell_command:
\* no job ever consumes a kill request that was recorded while no job was
\* registered under its id.
C4_KillWithoutJobHasNoEffect ==
    [][/\ \A c \in ShellCalls, pid \in ProcessIds :
             (/\ NextShellCall(c)
              /\ ~JobPresent(pid)
              /\ jop'[c] = "kill_shell_process"
              /\ jarg'[c] = pid)
             => (/\ jret'[c] = ShellOkBool(TRUE)
                 /\ processes' = processes
                 /\ jobs' = jobs)
       /\ \A c \in ShellCalls :
             (jpc[c] = "tick" /\ jpc'[c] = "killtake") => jarg[c] \notin stale]_vars

-----------------------------------------------------------------------------
(* Properties of a send_to_claude turn *)

\* the turn went through child.wait() and the resolution of its outcome
Resolved == cpc = "done" /\ status # None

\* a frame of the given type
IsFrame(f, t) == f.json /\ f.type = t

\* the content items of line l that carry streamed text
TextItemsOf(f) ==
    IF IsFrame(f, "assistant") /\ f.content # None
    THEN {k \in DOMAIN f.content[1] :
             f.content[1][k].type = "text" /\ f.content[1][k].val # None}
    ELSE {}

\* the concatenation, in order, of the text items k..  of the content array
RECURSIVE TextFrom(_, _, _)
TextFrom(f, k, n) ==
    IF k > n THEN <<>>
    ELSE (IF k \in TextItemsOf(f) THEN f.content[1][k].val[1] ELSE <<>>)
         \o TextFrom(f, k + 1, n)

\* the concatenation, in order, of all text items of the assistant frames
\* among lines i..n of ls
RECURSIVE StreamedText(_, _, _)
StreamedText(ls, i, n) ==
    IF i > n THEN <<>>
    ELSE (IF TextItemsOf(ls[i]) = {} THEN <<>>
          ELSE TextFrom(ls[i], 1, Len(ls[i].content[1])))
         \o StreamedText(ls, i + 1, n)

\* the lines at which a non-error result frame with non-empty result text is
\* read while no text has been streamed
AdoptionPoints(ls) ==
    {i \in DOMAIN ls :
        /\ IsFrame(ls[i], "result")
        /\ ~ls[i].is_error
        /\ ls[i].result # None
        /\ ls[i].result[1] # <<>>
        /\ StreamedText(ls, 1, i - 1) = <<>>}

\* the streamed text, preceded by the result text adopted at the first
\* adoption point (if there is one)
AdoptedThenStreamed(ls) ==
    IF AdoptionPoints(ls) = {} THEN StreamedText(ls, 1, Len(ls))
    ELSE LET i == CHOOSE j \in AdoptionPoints(ls) :
                      \A k \in AdoptionPoints(ls) : j <= k
         IN ls[i].result[1] \o StreamedText(ls, i + 1, Len(ls))

\* t is str without its leading and trailing whitespace
IsTrimOf(t, str) ==
    \E a \in 1..(Len(str) + 1), b \in 0..Len(str) :
        /\ t = SubSeq(str, a, b)
        /\ \A i \in 1..(a - 1) : IsSpace(str[i])
        /\ \A i \in (b + 1)..Len(str) : IsSpace(str[i])
        /\ t # <<>> => (~IsSpace(t[1]) /\ ~IsSpace(t[Len(t)]))

\* a frame that sets the pending error
CapturesError(f) ==
    \/ IsFrame(f, "error") /\ (f.error # None \/ f.message # None)
    \/ /\ IsFrame(f, "system")
       /\ f.message # None
       /\ Contains(ToLowercase(f.message[1]), <<"e", "r", "r", "o", "r">>)
    \/ IsFrame(f, "result") /\ f.is_error /\ f.result # None

\* an error frame: of type error, an error-flagged result, or a system frame
\* that reports an error
IsErrorFrame(f) ==
    \/ IsFrame(f, "error")
    \/ IsFrame(f, "result") /\ f.is_error
    \/ CapturesError(f)

\* a result frame with is_error = true and result text "boom"
IsBoomFrame(f) ==
    IsFrame(f, "result") /\ f.is_error /\ f.result = Some(Boom)

\* C5: whenever send_to_claude has written the temp MCP config file, the
\* file no longer exists when the call has returned, on every return path.
C5_TempFileRemoved ==
    (cpc = "done" /\ temp_mcp_config_path) => mcpFile = None

\* C6 as stated: a turn whose stream contains the boom frame, whatever
\* precedes or follows it, fails with exactly "boom" whatever the exit status.
C6_BoomAlwaysReported ==
    (Resolved /\ \E i \in DOMAIN lines : IsBoomFrame(lines[i]))
    => cret = ClaudeErr(Boom)

\* C6 amended: a turn whose stream contains the boom frame, with no frame
\* after it that sets the pending error, fails with exactly "boom" whatever
\* the exit status.
C6_LastErrorBoomReported ==
    (/\ Resolved
     /\ \E i \in DOMAIN lines :
           /\ IsBoomFrame(lines[i])
           /\ \A j \in DOMAIN lines : j > i => ~CapturesError(lines[j]))
    => cret = ClaudeErr(Boom)

\* C6 witness: the boom frame came after another error and before a frame
\* that sets none, the child exited with success, the turn failed with "boom"
C6_Witness ==
    /\ Resolved
    /\ Success(status[1])
    /\ cret = ClaudeErr(Boom)
    /\ \E i, j, k \in DOMAIN lines :
          /\ i < j /\ j < k
          /\ CapturesError(lines[i]) /\ ~IsBoomFrame(lines[i])
          /\ IsBoomFrame(lines[j])
          /\ lines[k].json /\ ~CapturesError(lines[k])

\* C7 as stated: at the end of the stream the aggregated text is the
\* concatenation of the text items of the assistant frames and nothing else.
C7_AggregateIsStreamedText ==
    cpc = "wait" => full_response = StreamedText(lines, 1, Len(lines))

\* C7 amended: at the end of the stream the aggregated text is the
\* concatenation of the text items of the assistant frames, preceded by the
\* result text of the first non-error result frame with non-empty text that
\* was read while nothing had been aggregated (if there is such a frame).
C7_AggregateIsAdoptedThenStreamed ==
    cpc = "wait" => full_response = AdoptedThenStreamed(lines)

\* C7 witness: the end of a stream in which a result text was adopted and
\* text was streamed after it
C7_Witness ==
    /\ cpc = "wait"
    /\ AdoptionPoints(lines) # {}
    /\ \E i \in AdoptionPoints(lines) :
          StreamedText(lines, i + 1, Len(lines)) # <<>>
    /\ full_response # StreamedText(lines, 1, Len(lines))

\* the content items that emit an event: <<line, item>>
EmittingItems ==
    {src \in (DOMAIN lines) \X (1..4) :
        LET f == lines[src[1]] IN
        /\ IsFrame(f, "assistant")
        /\ f.content # None
        /\ src[2] \in DOMAIN f.content[1]
        /\ LET item == f.content[1][src[2]] IN
           \/ item.type \in {"text", "thinking"} /\ item.val # None
           \/ item.type = "tool_use"}

\* source a was read before source b
ReadBefore(a, b) == a[1] < b[1] \/ (a[1] = b[1] /\ a[2] < b[2])

\* the event carries what its source item holds
CarriesItem(ev) ==
    LET item == lines[ev.src[1]].content[1][ev.src[2]] IN
    CASE item.type = "text" -> ev.content = item.val[1] /\ ev.thinking = None
      [] item.type = "thinking" -> ev.content = <<>> /\ ev.thinking = item.val
      [] OTHER -> ev.content = <<>> /\ ev.thinking # None

\* C8: the response events of a turn are emitted in exactly the order in
\* which their source frames and content items were read; the terminal
\* is_complete event, when emitted, is the last event of the turn and is
\* emitted only when the turn succeeds.
C8_EventsInReadOrder ==
    LET n == Len(clEvents)
        streamed == {i \in 1..n : ~clEvents[i].is_complete}
    IN /\ \A i \in 1..n :
             clEvents[i].is_complete => (i = n /\ cpc = "done" /\ cret.kind = "Ok")
       /\ \A i, j \in streamed :
             i < j => ReadBefore(clEvents[i].src, clEvents[j].src)
       /\ {clEvents[i].src : i \in streamed} = EmittingItems
       /\ \A i \in streamed : CarriesItem(clEvents[i])

\* C8 witness: a successful turn with events from two different lines, two of
\* them from one line, and the terminal event last
C8_Witness ==
    /\ cpc = "done"
    /\ cret.kind = "Ok"
    /\ Len(clEvents) >= 4
    /\ clEvents[Len(clEvents)].is_complete
    /\ clEvents[1].src[1] = clEvents[2].src[1]
    /\ clEvents[1].src[1] # clEvents[Len(clEvents) - 1].src[1]

\* some text item was streamed
AnyTextStreamed == \E i \in DOMAIN lines : TextItemsOf(lines[i]) # {}

\* the result texts of the result frames
ResultFields ==
    {lines[i].result[1] : i \in {j \in DOMAIN lines :
                                    IsFrame(lines[j], "result") /\ lines[j].result # None}}

\* the stream holds no error frame and the child exited with status 0
CleanExit ==
    /\ Resolved
    /\ Success(status[1])
    /\ \A i \in DOMAIN lines : ~IsErrorFrame(lines[i])

\* C9 as stated: a turn with no error frames whose child exits with status 0
\* succeeds, and its response is the trimmed concatenation of the streamed
\* text items, or the result frame's result field (as it is, or trimmed) if no
\* text item was streamed.
C9_CleanExitResponse ==
    CleanExit
    => /\ cret.kind = "Ok"
       /\ IF AnyTextStreamed
          THEN IsTrimOf(cret.response, StreamedText(lines, 1, Len(lines)))
          ELSE \/ cret.response \in ResultFields
               \/ \E r \in ResultFields : IsTrimOf(cret.response, r)
               \/ ResultFields = {} /\ cret.response = <<>>

\* C9 amended: a turn with no error frames (no frame of type error, no
\* error-flagged result, no system frame reporting an error) whose child
\* exits with status 0 succeeds, and its response is the trimmed aggregate:
\* the streamed text items, preceded by the result text of the first
\* non-error result frame with non-empty text read while nothing had been
\* aggregated.
C9_CleanExitTrimmedAggregate ==
    CleanExit
    => /\ cret.kind = "Ok"
       /\ IsTrimOf(cret.response, AdoptedThenStreamed(lines))

\* C9 witness: a clean exit after a result text was adopted and text was
\* streamed after it, whose response lost surrounding whitespace
C9_Witness ==
    /\ CleanExit
    /\ cret.kind = "Ok"
    /\ AnyTextStreamed
    /\ AdoptionPoints(lines) # {}
    /\ cret.response # AdoptedThenStreamed(lines)
    /\ cret.response # <<>>

-----------------------------------------------------------------------------
(* Properties of the registry locks *)

\* the shell call is suspended on child-process I/O: child.kill().await
\* (line 484) or wait_with_output().await (line 502)
ShellAtChildIO(c) == jpc[c] \in {"killwait", "collect"}

\* the service call is suspended on child-process I/O: child.kill().await
\* (line 666)
ServiceAtChildIO(c) == pc[c] = "kill"

\* C11: a task that is suspended on child-process I/O (killing a child,
\* waiting for its exit, collecting its output) holds no registry lock.
C11_NoLockAcrossChildIO ==
    /\ \A c \in ShellCalls :
          ShellAtChildIO(c) => (procLock # c /\ killLock # c)
    /\ \A c \in Calls :
          ServiceAtChildIO(c) => svcLock # c

-----------------------------------------------------------------------------
(* Properties of the resolution of a send_to_claude turn *)

\* C12: the outcome is resolved from the exit status, the pending stream
\* error and the stderr text, in this order: on a failure exit the turn fails
\* with the pending error if there is one, else with the stderr text if it
\* is not empty, else with the exit-status message; on a success exit it
\* fails with the pending error if there is one and succeeds otherwise.  A
\* failed turn returns no response and no session id and has emitted no
\* is_complete event.
C12_ResolutionOrder ==
    /\ Resolved =>
          IF ~Success(status[1])
          THEN /\ cret.kind = "Err"
               /\ cret.err =
                     (IF error_message # None THEN error_message[1]
                      ELSE IF stderr_output # <<>>
                           THEN <<"Claude error: ">> \o stderr_output
                           ELSE <<"Claude exited with status: ", status[1]>>)
          ELSE IF error_message # None
               THEN cret.kind = "Err" /\ cret.err = error_message[1]
               ELSE cret.kind = "Ok"
    /\ cret.kind = "Err" =>
          /\ cret.response = <<>>
          /\ cret.session_id = None
          /\ \A i \in DOMAIN clEvents : ~clEvents[i].is_complete

\* C12 witness: a turn that streamed text and captured a stream error, whose
\* child exited with failure and wrote to stderr, failed with the stream error
C12_Witness ==
    /\ Resolved
    /\ ~Success(status[1])
    /\ error_message # None
    /\ stderr_output # <<>>
    /\ full_response # <<>>
    /\ clEvents # <<>>
    /\ cret.kind = "Err"
    /\ cret.err = error_message[1]

-----------------------------------------------------------------------------
(* Properties of late kill requests and of missing entries *)

\* C13: a kill request recorded for an id after the id's job has taken its
\* final poll tick is a no-op: recording it touches no job and no result, and
\* no run_shell_command that starts afterwards ever consumes it.
C13_LateKillIsNoOp ==
    [][/\ \A c \in ShellCalls, pid \in ProcessIds :
             (/\ NextShellCall(c)
              /\ PastFinalTick(pid)
              /\ jop'[c] = "kill_shell_process"
              /\ jarg'[c] = pid)
             => (/\ processes' = processes
                 /\ jobs' = jobs
                 /\ \A d \in ShellCalls \ {c} : jret'[d] = jret[d])
       /\ \A c \in ShellCalls :
             (jpc[c] = "tick" /\ jpc'[c] = "killtake") => jarg[c] \notin late]_vars

\* C14: a poll tick that finds no kill request and no entry for its id
\* returns Ok({stdout "", stderr "Process terminated", exit_code -1}) and
\* changes neither RUNNING_PROCESSES nor KILL_SIGNALS.
C14_MissingEntryResult ==
    [][\A c \in ShellCalls :
          (/\ jpc[c] = "poll"
           /\ jpc'[c] # "poll"
           /\ jarg[c] \notin DOMAIN processes)
          => (/\ jpc'[c] = "done"
              /\ jret'[c].kind = "Ok"
              /\ jret'[c].stdout = ""
              /\ jret'[c].stderr = "Process terminated"
              /\ jret'[c].exit_code = -1
              /\ processes' = processes
              /\ signals' = signals)]_vars

\* C14 witness: a call that spawned a job returned the synthetic result
C14_Witness ==
    \E c \in ShellCalls :
        /\ jop[c] = "run_shell_command"
        /\ jown[c] # 0
        /\ jpc[c] = "done"
        /\ jret[c].kind = "Ok"
        /\ jret[c].stderr = "Process terminated"
        /\ jret[c].exit_code = -1

-----------------------------------------------------------------------------
(* Properties of stop_service *)

\* call c issues stop_service(sid) on this step
StopIssued(c, sid) ==
    NextCall(c) /\ op'[c] = "stop_service" /\ arg'[c] = sid

\* a stop removes the entry it finds; a stop on an absent id returns
\* Ok(false) at once and leaves the map as it was
StopRemovesOrReportsAbsent ==
    \A c \in Calls, sid \in ServiceIds :
        StopIssued(c, sid)
        => IF sid \in DOMAIN services
           THEN /\ sid \notin DOMAIN services'
                /\ pc'[c] # "done"
           ELSE /\ pc'[c] = "done"
                /\ ret'[c].kind = "Ok"
                /\ ret'[c].flag = FALSE
                /\ services' = services

\* an id enters the map only by the registration of a start_service call, and
\* a listing shows exactly the ids in the map
AbsentUntilRegistered ==
    /\ \A sid \in ServiceIds :
          (sid \notin DOMAIN services /\ sid \in DOMAIN services')
          => \E c \in Calls :
                /\ op[c] = "start_service" /\ arg[c] = sid
                /\ pc[c] = "insert" /\ pc'[c] = "done"
    /\ \A c \in Calls :
          (NextCall(c) /\ op'[c] = "get_running_services")
          => {ret'[c].list[i] : i \in DOMAIN ret'[c].list} = DOMAIN services

\* C15 as stated: stop_service(id) removes the entry and returns true iff id
\* was registered; a stop on an absent id returns false without error and
\* leaves the map unchanged; after a stop that found an entry the id is
\* absent from the listing until a start_service registers it again.
C15_StopReturnsFound ==
    [][/\ StopRemovesOrReportsAbsent
       /\ \A c \in Calls :
             (pc[c] = "kill" /\ pc'[c] = "done")
             => (ret'[c].kind = "Ok" /\ ret'[c].flag = TRUE)
       /\ AbsentUntilRegistered]_vars

\* C15 amended: a stop that found an entry removes it and returns true when
\* killing the child succeeds, and the error "Failed to stop service" when it
\* fails, the entry staying removed; the rest as stated.
C15_StopReturnsFoundOrKillError ==
    [][/\ StopRemovesOrReportsAbsent
       /\ \A c \in Calls :
             (pc[c] = "kill" /\ pc'[c] = "done")
             => (/\ \/ ret'[c].kind = "Ok" /\ ret'[c].flag = TRUE
                    \/ ret'[c].kind = "Err" /\ ret'[c].msg = "Failed to stop service"
                 /\ services' = services
                 /\ arg[c] \notin DOMAIN services')
       /\ AbsentUntilRegistered]_vars

\* C15 witness: a stop found the entry and returned true, a second stop of
\* the same id returned false, and the id is not registered
C15_Witness ==
    \E c, d \in Calls :
        /\ c < d
        /\ op[c] = "stop_service" /\ op[d] = "stop_service"
        /\ arg[c] = arg[d]
        /\ ret[c].kind = "Ok" /\ ret[c].flag = TRUE
        /\ pc[d] = "done" /\ ret[d].kind = "Ok" /\ ret[d].flag = FALSE
        /\ arg[c] \notin DOMAIN services

-----------------------------------------------------------------------------
(* Properties of error frames *)

\* the messages the rule "nested error message, else top-level message, else
\* a generic placeholder" allows for an error frame (an "error" member that
\* is itself a string may stand for the placeholder)
AllowedErrorMessages(f) ==
    IF f.error # None /\ f.error[1].message # None THEN {f.error[1].message[1]}
    ELSE IF f.message # None THEN {f.message[1]}
    ELSE {<<"Unknown error">>}
         \cup (IF f.error # None /\ f.error[1].str # None
               THEN {f.error[1].str[1]} ELSE {})

\* C16: every frame of type error sets the pending error, to the nested
\* error object's message if present, else the top-level message, else a
\* generic placeholder; any turn whose stream holds an error frame fails.
C16_ErrorFrameSetsPending ==
    /\ (cpc = "read" /\ lines # <<>> /\ IsFrame(lines[Len(lines)], "error"))
       => /\ error_message # None
          /\ error_message[1] \in AllowedErrorMessages(lines[Len(lines)])
    /\ (Resolved /\ \E i \in DOMAIN lines : IsFrame(lines[i], "error"))
       => cret.kind = "Err"

-----------------------------------------------------------------------------
(* Properties of one poll tick *)

\* call c takes a step
ShellStep(c) == jpc'[c] # jpc[c]

\* C17: within a tick the kill request is checked and consumed before the
\* child's completion is polled: a tick that finds a kill request pending
\* takes the kill branch whether or not the child has exited, and returns
\* the killed result; in either branch the call removes the registry entry
\* it finds under its id, once, and never touches the map again.
C17_KillCheckedBeforePoll ==
    [][\A c \in ShellCalls :
          /\ (jpc[c] = "tick" /\ ShellStep(c) /\ jarg[c] \in signals)
             => (jpc'[c] = "killtake" /\ jarg[c] \notin signals')
          /\ (jpc[c] \in {"killtake", "killwait"} /\ jpc'[c] = "done")
             => (/\ jret'[c].kind = "Ok"
                 /\ jret'[c].stdout = ""
                 /\ jret'[c].stderr = "^C"
                 /\ jret'[c].exit_code = 130)
          /\ (jpc[c] \in {"killtake", "poll"} /\ ShellStep(c)
              /\ processes' # processes)
             => (/\ jtaken[c] = 0
                 /\ jarg[c] \in DOMAIN processes
                 /\ DOMAIN processes' = (DOMAIN processes) \ {jarg[c]}
                 /\ jpc'[c] \in {"killwait", "collect", "done"})
          /\ (/\ \/ jpc[c] = "killtake" /\ ShellStep(c)
                 \/ jpc[c] = "poll" /\ jpc'[c] = "collect"
              /\ jarg[c] \in DOMAIN processes)
             => jarg[c] \notin DOMAIN processes'
          /\ (jpc[c] \in {"killwait", "collect"} /\ ShellStep(c))
             => processes' = processes]_vars

\* C17 witness: a call returned the killed result although its child had
\* exited on its own, and it had removed its entry
C17_Witness ==
    \E c \in ShellCalls :
        /\ jop[c] = "run_shell_command"
        /\ jpc[c] = "done"
        /\ jret[c].stderr = "^C"
        /\ jret[c].exit_code = 130
        /\ jtaken[c] = jown[c]
        /\ jown[c] # 0
        /\ jobs[jown[c]].st = "exited"
        /\ jarg[c] \notin DOMAIN processes

-----------------------------------------------------------------------------
(* Properties of the generated MCP config *)

\* the integrations given (none when the argument is absent)
GivenIntegrations == IF integrations = None THEN <<>> ELSE integrations[1]

\* the mcp entries that have both a command and an argument list
ServerEntries ==
    {i \in DOMAIN GivenIntegrations :
        /\ GivenIntegrations[i].integration_type = "mcp"
        /\ GivenIntegrations[i].server_command # None
        /\ GivenIntegrations[i].server_args # None}

\* the api-key entries that have a variable name and a non-empty key
InjectedKeys ==
    {i \in DOMAIN GivenIntegrations :
        /\ GivenIntegrations[i].integration_type = "api-key"
        /\ GivenIntegrations[i].env_variable # None
        /\ GivenIntegrations[i].api_key # None
        /\ GivenIntegrations[i].api_key[1] # <<>>}

ConfigDue == ServerEntries # {} \/ InjectedKeys # {}

\* C18: the MCP config document is written and --mcp-config is passed exactly
\* when the server map is non-empty or an api-key integration was injected;
\* the map holds one entry per mcp integration that has a command and an
\* argument list and nothing for the others; when no integration qualifies
\* no file is written and no flag is passed.
C18_ConfigWrittenExactlyWhenDue ==
    cpc # "start"
    => /\ cpc \in {"spawn", "read", "wait"}
          => /\ mcpFlag <=> ConfigDue
             /\ mcpFile # None <=> ConfigDue
       /\ ~ConfigDue => (~mcpFlag /\ mcpFile = None /\ ~temp_mcp_config_path)
       /\ mcpFile # None
          => LET servers == mcpFile[1].mcpServers IN
             /\ DOMAIN servers = {GivenIntegrations[i].id : i \in ServerEntries}
             /\ \A i \in ServerEntries :
                   (\A j \in ServerEntries :
                       GivenIntegrations[j].id = GivenIntegrations[i].id => j <= i)
                   => /\ servers[GivenIntegrations[i].id].command
                           = GivenIntegrations[i].server_command[1]
                      /\ servers[GivenIntegrations[i].id].args
                           = GivenIntegrations[i].server_args[1]

\* C18 witness: only an api-key integration qualified; the child was spawned
\* with the flag, the key in its environment and a config with no servers
C18_Witness ==
    /\ cpc = "read"
    /\ ServerEntries = {}
    /\ InjectedKeys # {}
    /\ mcpFlag
    /\ mcpFile # None
    /\ DOMAIN mcpFile[1].mcpServers = {}
    /\ DOMAIN childEnv # {}

-----------------------------------------------------------------------------
(* Properties of lines that are not JSON *)

\* a line is read on this step and it does not parse as JSON
ReadsNonJsonLine ==
    /\ Len(lines') = Len(lines) + 1
    /\ ~lines'[Len(lines')].json

\* C19: a stdout line that does not parse as JSON is invisible to the turn:
\* reading it, at any position of the stream, changes nothing that the
\* emitted events or the final result depend on, so the turn goes on exactly
\* as if the line had not been written.
C19_NonJsonLinesInvisible ==
    [][ReadsNonJsonLine
       => UNCHANGED <<cpc, clEvents, cret, full_response, error_message,
                      result_session_id, total_tokens, status>>]_vars

-----------------------------------------------------------------------------
(* Absence of deadlock on the registry locks *)

\* the shell call is between its first and its last step
InFlight(c) == jpc[c] \notin {"idle", "done"}

\* the next step of the shell call
ShellStepOf(c) ==
    \/ RunInsert(c) \/ RunTickNoKill(c) \/ RunTickKill(c) \/ RunKillTake(c)
    \/ RunKillWait(c) \/ RunPollExited(c) \/ RunCollect(c)
    \/ RunPollRunning(c) \/ RunPollError(c) \/ RunPollMissing(c)

\* the positions at which a call asks for KILL_SIGNALS / RUNNING_PROCESSES
WantsKillSignals(c) == jpc[c] = "tick"
WantsProcesses(c) == jpc[c] \in {"insert", "killtake", "poll"}

\* C20: the tasks cannot deadlock on the registry locks: the locks are only
\* nested in the order KILL_SIGNALS, then RUNNING_PROCESSES (a task asking
\* for KILL_SIGNALS holds no lock, a task asking for RUNNING_PROCESSES does
\* not hold it, a holder of RUNNING_PROCESSES or RUNNING_SERVICES asks for
\* no lock), and whenever calls are in flight one of them can take a step.
C20_NoLockCycle ==
    /\ \A c \in ShellCalls :
          /\ WantsKillSignals(c) => (killLock # c /\ procLock # c)
          /\ WantsProcesses(c) => procLock # c
          /\ procLock = c => ~(WantsKillSignals(c) \/ WantsProcesses(c))
          /\ killLock = c => jpc[c] \in {"killtake", "killwait"}
    /\ \A c \in Calls : svcLock = c => pc[c] = "kill"
    /\ (\E c \in ShellCalls : InFlight(c))
       => \E c \in ShellCalls : InFlight(c) /\ ENABLED ShellStepOf(c)

\* C20 witness: one call holds KILL_SIGNALS and waits for RUNNING_PROCESSES,
\* which another call holds while it collects its child's output
C20_Witness ==
    \E c, d \in ShellCalls :
        /\ c # d
        /\ jpc[c] = "killtake" /\ killLock = c
        /\ jpc[d] = "collect" /\ procLock = d

-----------------------------------------------------------------------------
(* Properties of the ownership of children *)

\* the children whose handle is in the map
RegisteredJobs == {processes[p] : p \in DOMAIN processes}
RegisteredChildren == {services[s] : s \in DOMAIN services}

\* a task holds the handle of shell child k: it is about to register it, or
\* it took it out of the map and is killing it or collecting its output
JobHeld(k) ==
    \E c \in ShellCalls :
        \/ jown[c] = k /\ jpc[c] = "insert"
        \/ jtaken[c] = k /\ jpc[c] \in {"killwait", "collect"}

\* a task holds the handle of service child k: it is about to register it,
\* or it took it out of the map and is killing it
ChildHeld(k) ==
    \E c \in Calls : own[c] = k /\ pc[c] \in {"insert", "kill"}

\* C21: every live child spawned by run_shell_command or start_service is
\* reachable: its handle is in the registry or in the hands of a task that
\* will register, wait for or kill it.
C21_LiveChildReachable ==
    /\ \A k \in DOMAIN jobs :
          jobs[k].st = "running" => (k \in RegisteredJobs \/ JobHeld(k))
    /\ \A k \in DOMAIN children :
          children[k].st = "running" => (k \in RegisteredChildren \/ ChildHeld(k))

\* C22: a run_shell_command call reports on and signals its own child only:
\* the handle it takes out of the map, to kill it or to collect its output,
\* is the handle of the process it spawned, whose pid it signals.
C22_HandlesOwnChild ==
    \A c \in ShellCalls : jtaken[c] # 0 => jtaken[c] = jown[c]

-----------------------------------------------------------------------------
(* Properties of a service id that is stopped and started again *)

\* C23: for each registered child at most one terminal event is ever
\* emitted, and none after stop_service removed it: a step that emits a
\* terminal event for a child emits one, the first, and the child was not
\* removed by stop_service; so also when the watcher of an earlier start
\* polls the child that was started again under the id.
C23_OneTerminalPerChildNoneAfterStop ==
    [][\A k \in DOMAIN children :
          TerminalFor(k)' # TerminalFor(k)
          => (/\ TerminalFor(k) = {}
              /\ Cardinality(TerminalFor(k)') = 1
              /\ children[k].end # "stop")]_vars

\* C23 witness: an id was started, stopped and started again; the watcher of
\* the first start has emitted the one terminal event of the second child
\* and ended, the watcher of the second start is still alive, and the
\* stopped child has no terminal event
C23_Witness ==
    \E c, d \in Calls :
        /\ c < d
        /\ op[c] = "start_service" /\ op[d] = "start_service"
        /\ arg[c] = arg[d]
        /\ ret[c] = OkUnit /\ ret[d] = OkUnit
        /\ \E e \in Calls :
              /\ c < e /\ e < d
              /\ op[e] = "stop_service" /\ arg[e] = arg[c]
              /\ ret[e] = OkBool(TRUE)
        /\ wpc[c] = "done" /\ wpc[d] = "poll"
        /\ \A e \in Calls \ {c, d} : wpc[e] = "none"
        /\ \E j, k \in DOMAIN children :
              /\ j < k
              /\ children[j].sid = arg[c] /\ children[k].sid = arg[c]
              /\ children[j].end = "stop" /\ TerminalFor(j) = {}
              /\ children[k].end = "exit" /\ Cardinality(TerminalFor(k)) = 1

-----------------------------------------------------------------------------
(* Properties of the termination of the poll loops *)

\* the child that the start_service call c spawned: commands are numbered as
\* they are invoked and a start spawns as it is invoked, so it is the n-th
\* child when c is the n-th start that spawned one
ChildOf(c) ==
    Cardinality({d \in 1..c : /\ op[d] = "start_service"
                              /\ (pc[d] = "insert" \/ ret[d] = OkUnit)})

\* the loop of the shell call c is polling and may end: its child has
\* exited, or a kill request for its id is recorded
ShellLoopMayEnd(c) ==
    /\ jpc[c] \in {"tick", "poll"}
    /\ (jobs[jown[c]].st # "running" \/ jarg[c] \in signals)

\* the watcher of the start c is alive and may end: the child of c has
\* exited or was killed, or its entry has left the map
WatcherMayEnd(c) ==
    /\ wpc[c] = "poll"
    /\ (children[ChildOf(c)].st # "running" \/ children[ChildOf(c)].end # "")

\* An iteration that finds the child still running (WatcherRunning,
\* RunPollRunning) changes nothing, so a loop that polls forever shows as a
\* behaviour that stutters while the loop is still at its poll.

\* C24: under fair scheduling every poll loop ends once its terminating
\* condition holds: a run_shell_command call whose child has exited, or for
\* whose id a kill request is recorded while it polls, returns, and a service
\* watcher whose child has exited or whose entry was removed terminates.
C24_PollLoopsTerminate ==
    /\ \A c \in ShellCalls : ShellLoopMayEnd(c) ~> (jpc[c] = "done")
    /\ \A c \in Calls : WatcherMayEnd(c) ~> (wpc[c] = "done")

=============================================================================
